---------------------------- MODULE Spec2Model ----------------------------
(***************************************************************************)
(* Model of the harvesting pipeline of the polymarket_api repository:      *)
(*   gamma_api/top_election_vol.py : fetch_markets_batch, fetch_all_markets,*)
(*                                   is_valid_market,                       *)
(*                                   get_top_markets_by_volume              *)
(*   gamma_api/query_elections.py  : fetch_markets_batched,                 *)
(*                                   is_election_related,                   *)
(*                                   get_election_markets                   *)
(***************************************************************************)
EXTENDS Integers, Sequences, FiniteSets, TLC

VARIABLES
    \* ---- one call of fetch_markets_batch, step by step (top_election_vol.py)
    fcall,          \* the call: attempt, status, result, requests, slept
    fresp,          \* history of the responses the call has received
    \* ---- fetch_all_markets / get_top_markets_by_volume (top_election_vol.py)
    store,          \* the endpoint's backing catalog (sequence of markets)
    batch_size,     \* local batch_size of fetch_all_markets
    max_workers,    \* parameter max_workers
    top_n,          \* parameter top_n of get_top_markets_by_volume
    offset,         \* the offset cursor
    has_more,       \* loop flag
    all_empty,      \* per-wave flag
    all_markets,    \* the working list
    futures,        \* the futures of the current wave
    ci,             \* index of the next future the coordinator waits for
    pc,             \* position of the coordinating thread
    wave_no,        \* history: number of waves dispatched
    requested,      \* history: every offset handed to executor.submit, in order
    wave_results,   \* history: results collected in the current wave
    waves_nonempty, \* history: waves in which some fetch returned records
    waves_empty,    \* history: waves in which every fetch returned no record
    faults,         \* history: calls that did not get the store's own page at once
    filtered_markets, \* local of get_top_markets_by_volume
    top_markets,    \* value returned by get_top_markets_by_volume
    \* ---- fetch_markets_batched (query_elections.py)
    n_terms,        \* len(search_terms)
    limit_per_term, \* parameter limit_per_term
    term_idx,       \* index of the current search term
    term_markets,   \* local term_markets
    seen_ids,       \* local seen_ids
    b_offset,       \* local offset
    markets_len,    \* len() of the local `markets`, -1 while it is unbound
    retry,          \* loop variable of the retry loop
    b_all_markets,  \* local all_markets
    b_pc,           \* position in fetch_markets_batched
    unique_markets_list, \* the returned list
    n_requests,     \* history: requests issued
    n_received,     \* history: records received in "markets" lists
    saw_no_id,      \* history: a record without identifier was received
    firsts,         \* history: first closed occurrence of each identifier, in arrival order
    last_page,      \* history: how the latest request ended
    \* ---- the per-record functions, called on one record
    a_market,       \* the record the function is called on
    is_valid,       \* what is_valid_market(a_market) did
    volume_key,     \* what get_volume(a_market) did
    volumeNum_set,  \* what get_election_markets stored in a_market["volumeNum"]
    q_market,       \* argument of is_election_related
    is_related      \* what is_election_related(q_market) did

fetchVars == <<fcall, fresp>>
batchedVars == <<n_terms, limit_per_term, term_idx, term_markets, seen_ids, b_offset,
                 markets_len, retry, b_all_markets, b_pc, unique_markets_list,
                 n_requests, n_received, saw_no_id, firsts, last_page>>
sweepVars == <<store, batch_size, max_workers, top_n, offset, has_more, all_empty,
               all_markets, futures, ci, pc, wave_no, requested, wave_results,
               waves_nonempty, waves_empty, faults, filtered_markets, top_markets>>
recordVars == <<a_market, is_valid, volume_key, volumeNum_set, q_market, is_related>>
vars == <<fetchVars, sweepVars, batchedVars, recordVars>>

-----------------------------------------------------------------------------
(* Bounds of the model *)

MaxN == 3          \* largest backing store
MaxBatch == 2      \* largest batch_size tried (500 in the source, scaled)
MaxWorkers == 2    \* largest max_workers tried
MaxDrift == 1      \* how far back an unstable endpoint may serve a page from
MaxTopN == 3       \* largest top_n tried
MaxFaults == 2     \* calls per run that may meet failures, odd bodies or drifted pages
MaxTerms == 2      \* most search terms
MaxLimit == 2      \* largest limit_per_term
MaxPageLen == 2    \* longest page the search endpoint answers with
MaxRequests == 4   \* requests one run of fetch_markets_batched may issue
MaxHarvest == 3    \* longest list fetch_all_markets hands to the filter
MaxWaves == MaxN + 1 + MaxFaults    \* enough waves for every run within the bounds above

Min(a, b) == IF a < b THEN a ELSE b
Max(a, b) == IF a > b THEN a ELSE b

-----------------------------------------------------------------------------
(* JSON values of a market's fields.  t is the JSON type ("absent" when    *)
(* the key is missing), s the characters of a string, n the number (0/1    *)
(* for a boolean); "bigint" is an integer literal beyond the range of a   *)
(* float.                                                                  *)

Absent == [t |-> "absent", s |-> <<>>, n |-> 0]
Null == [t |-> "null", s |-> <<>>, n |-> 0]
Str(chars) == [t |-> "str", s |-> chars, n |-> 0]
Num(k) == [t |-> "num", s |-> <<>>, n |-> k]
Bool(b) == [t |-> "bool", s |-> <<>>, n |-> IF b THEN 1 ELSE 0]
BigInt == [t |-> "bigint", s |-> <<>>, n |-> 0]

(* Python truthiness of a JSON value (absent behaves as the None of .get) *)
Truthy(v) ==
    CASE v.t = "str" -> v.s # <<>>
      [] v.t = "num" -> v.n # 0
      [] v.t = "bool" -> v.n = 1
      [] v.t = "bigint" -> TRUE
      [] OTHER -> FALSE

-----------------------------------------------------------------------------
(* Markets.  A market is a JSON object; the model keeps the fields the     *)
(* pipeline reads.                                                         *)

Market(id, closed, title, question, description, volumeNum, volume) ==
    [id |-> id, closed |-> closed, groupItemTitle |-> title, question |-> question,
     description |-> description, volumeNum |-> volumeNum, volume |-> volume]

TxtWinElection == <<"W", "i", "n", " ", "e", "l", "e", "c", "t", "i", "o", "n">>
TxtElected == <<"e", "l", "e", "c", "t", "e", "d">>
TxtWins == <<"w", "i", "n", "s">>
TxtOther == <<"r", "a", "i", "n">>
TxtName == <<"A", "n", "n">>
TxtNameDigit == <<"A", "1">>

(* The i-th market of the backing catalog: distinct identifiers, a mix of *)
(* markets that pass and fail the filter, and ties in volume.             *)
CatalogRec(i) ==
    Market(Num(i), Bool(TRUE),
           IF i % 4 = 3 THEN Str(TxtNameDigit) ELSE Str(TxtName),
           Str(TxtWinElection),
           IF i % 2 = 0 THEN Str(TxtElected) ELSE Null,
           IF i % 3 = 0 THEN Null ELSE Num((5 - i) \div 3),
           Num(i))

Catalog(n) == [i \in 1..n |-> CatalogRec(i)]

(* The page of `st` the endpoint holds at offset o with limit lim *)
Page(st, o, lim) == SubSeq(st, o + 1, Min(o + lim, Len(st)))

-----------------------------------------------------------------------------
(* fetch_markets_batch (top_election_vol.py 57-86)                         *)

max_retries == 3
retry_delay == 5

(* What one requests.get / raise_for_status / response.json() can yield.   *)
(* The first four raise inside the try block; the others are decoded       *)
(* JSON bodies: a bare list, {"markets": [...]}, an object without "markets",   *)
(* a JSON scalar, {"markets": null} and {"markets": 5}.                    *)
FailureKinds == {"timeout", "connection", "http_error", "bad_json"}
BodyKinds == {"list", "wrapped", "object", "scalar", "wrapped_null", "wrapped_num"}

Response(kind, recs) == [kind |-> kind, recs |-> recs]
IsFailure(resp) == resp.kind \in FailureKinds

(* Values fetch_markets_batch can return: a list, or the non-list value    *)
(* found under "markets".                                                  *)
ListResult(recs) == [kind |-> "list", recs |-> recs]
NullResult == [kind |-> "null", recs |-> <<>>]
NumResult == [kind |-> "num", recs |-> <<>>]
NoResult == [kind |-> "none", recs |-> <<>>]

(* lines 72-77: the value returned for a decoded body *)
ParseBody(resp) ==
    CASE resp.kind = "wrapped" -> ListResult(resp.recs)
      [] resp.kind = "wrapped_null" -> NullResult
      [] resp.kind = "wrapped_num" -> NumResult
      [] resp.kind = "list" -> ListResult(resp.recs)
      [] OTHER -> ListResult(<<>>)

(* a backoff that starts one doubling too late *)
BackoffDelayLate(attempt) == retry_delay * (2 ^ (attempt + 1))

(* line 81: the backoff delay after failed attempt number `attempt` *)
BackoffDelay(attempt) == retry_delay * (2 ^ attempt)

(* an off-by-one retry test: one attempt too many *)
RetryAgainOffByOne(attempt) == attempt < max_retries

(* line 80: whether another attempt follows a failed one *)
RetryAgain(attempt) == attempt < max_retries - 1

NewCall(o) == [offset |-> o, attempt |-> 0, status |-> "running",
               result |-> NoResult, requests |-> 0, slept |-> <<>>, gave_up |-> FALSE]

(* One iteration of the loop of lines 66-86 on response resp *)
AttemptStep(c, resp) ==
    IF IsFailure(resp)
    THEN IF RetryAgain(c.attempt)
         THEN [c EXCEPT !.attempt = @ + 1, !.requests = @ + 1,
                        !.slept = Append(@, BackoffDelay(c.attempt))]
         ELSE [c EXCEPT !.status = "returned", !.requests = @ + 1,
                        !.result = ListResult(<<>>), !.gave_up = TRUE]
    ELSE [c EXCEPT !.status = "returned", !.requests = @ + 1,
                   !.result = ParseBody(resp)]

(* The whole call on a script of responses (one per attempt made) *)
RECURSIVE RunCall(_, _)
RunCall(c, script) ==
    IF c.status = "returned" \/ script = <<>> THEN c
    ELSE RunCall(AttemptStep(c, Head(script)), Tail(script))

fetch_markets_batch(o, script) == RunCall(NewCall(o), script)

(* What the endpoint may answer to a request for offset o: a transport     *)
(* failure, or a body of any shape whose records are a page taken at o or  *)
(* up to MaxDrift records earlier (pages of an unstable catalog overlap).  *)
ServedPages(st, o, lim) == {Page(st, o2, lim) : o2 \in Max(0, o - MaxDrift)..o}

Responses(st, o, lim) ==
    {Response(k, <<>>) : k \in FailureKinds \cup (BodyKinds \ {"list", "wrapped"})}
    \cup {Response(k, p) : k \in {"list", "wrapped"}, p \in ServedPages(st, o, lim)}

(* The answer of a stable store without transport failures *)
IsCleanResponse(resp, st, o, lim) ==
    resp.kind \in {"list", "wrapped"} /\ resp.recs = Page(st, o, lim)

(* Every way one call can end: from a running call, each response either *)
(* ends it or leads to the next attempt.                                   *)
RECURSIVE CallOutcomes(_, _, _)
CallOutcomes(c, st, lim) ==
    LET nexts == {AttemptStep(c, r) : r \in Responses(st, c.offset, lim)}
    IN  {d \in nexts : d.status = "returned"}
        \cup UNION {CallOutcomes(d, st, lim) : d \in {e \in nexts : e.status = "running"}}

(* What a call for offset o can return; it is clean when it returned the   *)
(* store's own page at its first attempt, and exhausted when it returned   *)
(* from line 86 after its last attempt failed.                             *)
FetchOutcomes(st, o, lim) ==
    {[result |-> d.result,
      clean |-> (d.requests = 1 /\ d.result = ListResult(Page(st, o, lim))),
      exhausted |-> d.gave_up] :
        d \in CallOutcomes(NewCall(o), st, lim)}

CleanOutcomes(st, o, lim) ==
    {[result |-> fetch_markets_batch(o, <<Response("list", Page(st, o, lim))>>).result,
      clean |-> TRUE, exhausted |-> FALSE]}

-----------------------------------------------------------------------------
(* Strings *)

Upper == <<"A", "E", "W">>
LowerOf == <<"a", "e", "w">>
Digits == {"0", "1", "2", "3", "4", "5", "6", "7", "8", "9"}
Whitespace == {" ", "\t"}

(* str.lower() *)
LowerChar(c) ==
    IF \E k \in 1..Len(Upper) : Upper[k] = c
    THEN LowerOf[CHOOSE k \in 1..Len(Upper) : Upper[k] = c]
    ELSE c
Lower(chars) == [k \in 1..Len(chars) |-> LowerChar(chars[k])]

(* `word in text` *)
Contains(text, word) ==
    \E k \in 1..(Len(text) - Len(word) + 1) : SubSeq(text, k, k + Len(word) - 1) = word

(* `not s.strip()` *)
IsBlank(chars) == \A k \in 1..Len(chars) : chars[k] \in Whitespace

(* HAS_NUMBER_PATTERN.search(s) *)
HasDigit(chars) == \E k \in 1..Len(chars) : chars[k] \in Digits

-----------------------------------------------------------------------------
(* is_valid_market (top_election_vol.py 88-113)                            *)

WIN_KEYWORDS == {<<"w", "i", "n">>, <<"w", "i", "n", "s">>}
ELECTION_KEYWORDS == {<<"e", "l", "e", "c", "t", "i", "o", "n">>,
                      <<"e", "l", "e", "c", "t", "e", "d">>}

(* a groupItemTitle test that lets digits through *)
TitleRejectedDigitsAllowed(title) ==
    \/ ~Truthy(title)
    \/ title.t # "str"
    \/ IsBlank(title.s)

(* lines 95-97: the groupItemTitle test *)
TitleRejected(title) ==
    \/ ~Truthy(title)
    \/ title.t # "str"
    \/ IsBlank(title.s)
    \/ HasDigit(title.s)

(* line 100: market.get("question", "").lower() raises on a non-string *)
QuestionRaises(m) == m.question.t \notin {"absent", "str"}
QuestionText(m) == IF m.question.t = "str" THEN Lower(m.question.s) ELSE <<>>

(* line 101: .lower() only when the description is truthy *)
DescriptionRaises(m) == Truthy(m.description) /\ m.description.t # "str"
DescriptionText(m) == IF Truthy(m.description) THEN Lower(m.description.s) ELSE <<>>

TextContent(m) == QuestionText(m) \o <<" ">> \o DescriptionText(m)

(* a test that is content with one of the two keyword sets *)
KeywordsEither(has_win_keyword, has_election_keyword) ==
    has_win_keyword \/ has_election_keyword

(* line 113 *)
KeywordsOk(has_win_keyword, has_election_keyword) ==
    has_win_keyword /\ has_election_keyword

(* "True", "False", or "AttributeError" when the call raises *)
is_valid_market(m) ==
    IF ~Truthy(m.closed) THEN "False"
    ELSE IF TitleRejected(m.groupItemTitle) THEN "False"
    ELSE IF QuestionRaises(m) \/ DescriptionRaises(m) THEN "AttributeError"
    ELSE LET text == TextContent(m)
             has_win_keyword == \E w \in WIN_KEYWORDS : Contains(text, w)
             has_election_keyword == \E w \in ELECTION_KEYWORDS : Contains(text, w)
         IN  IF KeywordsOk(has_win_keyword, has_election_keyword) THEN "True" ELSE "False"

-----------------------------------------------------------------------------
(* get_volume and the sort (top_election_vol.py 238-250)                   *)

DigitValue(c) == CHOOSE d \in 0..9 :
    <<"0", "1", "2", "3", "4", "5", "6", "7", "8", "9">>[d + 1] = c

RECURSIVE DecimalValue(_)
DecimalValue(chars) ==
    IF chars = <<>> THEN 0
    ELSE 10 * DecimalValue(SubSeq(chars, 1, Len(chars) - 1)) + DigitValue(chars[Len(chars)])

(* float(x).  A number or boolean converts; of the model's strings a run   *)
(* of decimal digits converts to its value and "nan" to the float nan,     *)
(* every other one raises ValueError; None raises TypeError; an integer    *)
(* beyond the range of a float raises OverflowError.                       *)
IsDecimal(chars) == chars # <<>> /\ \A k \in 1..Len(chars) : chars[k] \in Digits
IsNanLiteral(chars) == chars = <<"n", "a", "n">>

FloatOf(k) == [nan |-> FALSE, v |-> k]
FloatNan == [nan |-> TRUE, v |-> 0]
Returns(key) == [exc |-> "none", key |-> key]
Raises(exc) == [exc |-> exc, key |-> FloatOf(0)]

Float(x) ==
    CASE x.t \in {"num", "bool"} -> Returns(FloatOf(x.n))
      [] x.t = "bigint" -> Raises("OverflowError")
      [] x.t = "str" /\ IsDecimal(x.s) -> Returns(FloatOf(DecimalValue(x.s)))
      [] x.t = "str" /\ IsNanLiteral(x.s) -> Returns(FloatNan)
      [] x.t = "str" -> Raises("ValueError")
      [] OTHER -> Raises("TypeError")

(* an except clause that catches nothing *)
CaughtByNone(exc) == FALSE

(* line 244: except (ValueError, TypeError) *)
Caught(exc) == exc \in {"ValueError", "TypeError"}

(* lines 239-241: vol = volumeNum, or volume (default 0) when that is None *)
VolumeField(volumeNum, volume) ==
    IF volumeNum.t \in {"absent", "null"}
    THEN (IF volume.t = "absent" THEN Num(0) ELSE volume)
    ELSE volumeNum

(* lines 238-245: what the call returns, or the exception it raises *)
get_volume(m) ==
    LET vol == VolumeField(m.volumeNum, m.volume)
    IN  IF vol.t \in {"absent", "null"} THEN Returns(FloatOf(0))
        ELSE LET f == Float(vol)
             IN  IF f.exc = "none" THEN f
                 ELSE IF Caught(f.exc) THEN Returns(FloatOf(0))
                 ELSE f

(* a < b on floats: every comparison with nan is false *)
FloatLt(a, b) == ~a.nan /\ ~b.nan /\ a.v < b.v
KeyLt(m1, m2) == FloatLt(get_volume(m1).key, get_volume(m2).key)

RECURSIVE Reverse(_)
Reverse(ms) == IF ms = <<>> THEN <<>> ELSE Append(Reverse(Tail(ms)), Head(ms))

(* list.sort on a short list (CPython, fewer than 64 elements): the        *)
(* leading run is found with `<` on neighbours (a strictly descending run  *)
(* is reversed) and the other elements are placed by binary insertion.     *)
RECURSIVE RunEnd(_, _, _)
RunEnd(a, i, desc) ==
    IF i > Len(a) THEN Len(a)
    ELSE IF desc = KeyLt(a[i], a[i - 1]) THEN RunEnd(a, i + 1, desc)
    ELSE i - 1

CountRun(a) ==
    IF Len(a) <= 1 THEN [n |-> Len(a), desc |-> FALSE]
    ELSE LET desc == KeyLt(a[2], a[1])
         IN  [n |-> RunEnd(a, 3, desc), desc |-> desc]

RECURSIVE BinarySearch(_, _, _, _)
BinarySearch(a, pivot, l, r) ==
    IF l >= r THEN l
    ELSE LET p == l + ((r - l) \div 2)
         IN  IF KeyLt(pivot, a[p + 1]) THEN BinarySearch(a, pivot, l, p)
             ELSE BinarySearch(a, pivot, p + 1, r)

RECURSIVE BinaryInsert(_, _)
BinaryInsert(a, start) ==
    IF start >= Len(a) THEN a
    ELSE LET pivot == a[start + 1]
             l == BinarySearch(a, pivot, 0, start)
         IN  BinaryInsert(SubSeq(a, 1, l) \o <<pivot>> \o SubSeq(a, l + 1, start)
                            \o SubSeq(a, start + 2, Len(a)),
                          start + 1)

ListSort(a) ==
    LET run == CountRun(a)
        a1 == IF run.desc
              THEN Reverse(SubSeq(a, 1, run.n)) \o SubSeq(a, run.n + 1, Len(a))
              ELSE a
    IN  BinaryInsert(a1, run.n)

(* line 247: list.sort(key=get_volume, reverse=True) reverses the list,    *)
(* sorts it ascending and reverses it again.                               *)
SortByVolume(ms) == Reverse(ListSort(Reverse(ms)))

(* line 247: the sort raises when get_volume raises for some element *)
SortRaises(ms) == \E k \in 1..Len(ms) : get_volume(ms[k]).exc # "none"

(* a slice that keeps one record too many *)
TruncateInclusive(ms, n) == SubSeq(ms, 1, Min(n + 1, Len(ms)))

(* line 250: filtered_markets[:top_n] *)
Truncate(ms, n) == SubSeq(ms, 1, Min(n, Len(ms)))

(* lines 227-229: the markets of a chunk whose result is True, in order *)
RECURSIVE KeepValid(_)
KeepValid(chunk) ==
    IF chunk = <<>> THEN <<>>
    ELSE (IF is_valid_market(Head(chunk)) = "True" THEN <<Head(chunk)>> ELSE <<>>)
         \o KeepValid(Tail(chunk))

-----------------------------------------------------------------------------
(* fetch_all_markets (top_election_vol.py 115-157)                         *)

(* line 138: `if markets:` on the value a fetch returned *)
ResultTruthy(r) == (r.kind = "list" /\ r.recs # <<>>) \/ r.kind = "num"

(* line 140: all_markets.extend(markets); extending with a number raises   *)
(* TypeError, which line 142 catches, leaving the list as it was.          *)
Extend(am, r) == IF r.kind = "list" THEN am \o r.recs ELSE am

(* every request of a wave asks for the page at the cursor *)
CurrentOffsetSame(off, i, bs) == off

(* line 130: the offset of the i-th request of a wave (i from 0) *)
CurrentOffset(off, i, bs) == off + (i * bs)

(* a cursor that moves by one page per wave *)
NextOffsetOnePage(off, bs, mw) == off + bs

(* line 146: the cursor after a wave *)
NextOffset(off, bs, mw) == off + bs * mw

(* a flag that only remembers the last result of the wave *)
AllEmptyAfterLast(allEmpty, markets) == ~ResultTruthy(markets)

(* lines 138-139: all_empty after looking at one more result *)
AllEmptyAfter(allEmpty, markets) == IF ResultTruthy(markets) THEN FALSE ELSE allEmpty

(* a flag that an empty wave does not clear *)
HasMoreAfterKeepsOn(hasMore, allEmpty) == hasMore

(* lines 149-150: has_more after a wave *)
HasMoreAfter(hasMore, allEmpty) == IF allEmpty THEN FALSE ELSE hasMore

(* a future; exhausted records that its call gave up after max_retries *)
Future(o) == [offset |-> o, state |-> "running", result |-> NoResult, exhausted |-> FALSE]
NoFutures == <<>>

(* lines 126-134: submit one fetch per worker, then all_empty = True *)
Submit ==
    /\ pc = "loop"
    /\ has_more
    /\ wave_no < MaxWaves
    /\ futures' = [i \in 1..max_workers |->
                      Future(CurrentOffset(offset, i - 1, batch_size))]
    /\ requested' = requested \o
                      [i \in 1..max_workers |-> CurrentOffset(offset, i - 1, batch_size)]
    /\ all_empty' = TRUE
    /\ ci' = 1
    /\ wave_no' = wave_no + 1
    /\ wave_results' = <<>>
    /\ pc' = "collect"
    /\ UNCHANGED <<store, batch_size, max_workers, top_n, offset, has_more, all_markets,
                   waves_nonempty, waves_empty, faults, filtered_markets, top_markets>>
    /\ UNCHANGED <<fetchVars, batchedVars, recordVars>>

(* A worker thread runs fetch_markets_batch for future i to its end *)
RunFetch(i) ==
    /\ i \in DOMAIN futures
    /\ futures[i].state = "running"
    /\ \E out \in (IF faults < MaxFaults
                   THEN FetchOutcomes(store, futures[i].offset, batch_size)
                   ELSE CleanOutcomes(store, futures[i].offset, batch_size)) :
          /\ futures' = [futures EXCEPT ![i].state = "done", ![i].result = out.result,
                                        ![i].exhausted = out.exhausted]
          /\ faults' = faults + (IF out.clean THEN 0 ELSE 1)
    /\ UNCHANGED <<store, batch_size, max_workers, top_n, offset, has_more, all_empty,
                   all_markets, ci, pc, wave_no, requested, wave_results,
                   waves_nonempty, waves_empty, filtered_markets, top_markets>>
    /\ UNCHANGED <<fetchVars, batchedVars, recordVars>>

(* a result loop that takes the futures in the order in which they finish *)
CollectAsCompleted ==
    /\ pc = "collect"
    /\ ci <= max_workers
    /\ \E i \in DOMAIN futures :
          /\ futures[i].state = "done"
          /\ LET markets == futures[i].result
             IN  /\ all_empty' = AllEmptyAfter(all_empty, markets)
                 /\ all_markets' = (IF ResultTruthy(markets)
                                    THEN Extend(all_markets, markets) ELSE all_markets)
                 /\ wave_results' = Append(wave_results, markets)
          /\ futures' = [futures EXCEPT ![i].state = "collected"]
    /\ ci' = ci + 1
    /\ UNCHANGED <<store, batch_size, max_workers, top_n, offset, has_more, pc, wave_no,
                   requested, waves_nonempty, waves_empty, faults, filtered_markets,
                   top_markets>>
    /\ UNCHANGED <<fetchVars, batchedVars, recordVars>>

(* lines 135-143: one iteration of the result loop; future.result() blocks *)
(* until the ci-th future is done.                                         *)
Collect ==
    /\ pc = "collect"
    /\ ci <= max_workers
    /\ futures[ci].state = "done"
    /\ LET markets == futures[ci].result
       IN  /\ all_empty' = AllEmptyAfter(all_empty, markets)
           /\ all_markets' = (IF ResultTruthy(markets)
                              THEN Extend(all_markets, markets) ELSE all_markets)
           /\ wave_results' = Append(wave_results, markets)
    /\ futures' = [futures EXCEPT ![ci].state = "collected"]
    /\ ci' = ci + 1
    /\ UNCHANGED <<store, batch_size, max_workers, top_n, offset, has_more, pc, wave_no,
                   requested, waves_nonempty, waves_empty, faults, filtered_markets,
                   top_markets>>
    /\ UNCHANGED <<fetchVars, batchedVars, recordVars>>

(* a coordinator that leaves the result loop after the first future *)
AdvanceEarly ==
    /\ pc = "collect"
    /\ ci > 1
    /\ offset' = NextOffset(offset, batch_size, max_workers)
    /\ has_more' = HasMoreAfter(has_more, all_empty)
    /\ waves_nonempty' = waves_nonempty +
          (IF \E k \in 1..Len(wave_results) : wave_results[k].recs # <<>> THEN 1 ELSE 0)
    /\ waves_empty' = waves_empty +
          (IF \A k \in 1..Len(wave_results) : wave_results[k].recs = <<>> THEN 1 ELSE 0)
    /\ pc' = "loop"
    /\ UNCHANGED <<store, batch_size, max_workers, top_n, all_empty, all_markets, futures,
                   ci, wave_no, requested, wave_results, faults, filtered_markets,
                   top_markets>>
    /\ UNCHANGED <<fetchVars, batchedVars, recordVars>>

(* lines 145-154: advance the cursor and decide whether to go on *)
Advance ==
    /\ pc = "collect"
    /\ ci > max_workers
    /\ offset' = NextOffset(offset, batch_size, max_workers)
    /\ has_more' = HasMoreAfter(has_more, all_empty)
    /\ waves_nonempty' = waves_nonempty +
          (IF \E k \in 1..Len(wave_results) : wave_results[k].recs # <<>> THEN 1 ELSE 0)
    /\ waves_empty' = waves_empty +
          (IF \A k \in 1..Len(wave_results) : wave_results[k].recs = <<>> THEN 1 ELSE 0)
    /\ pc' = "loop"
    /\ UNCHANGED <<store, batch_size, max_workers, top_n, all_empty, all_markets, futures,
                   ci, wave_no, requested, wave_results, faults, filtered_markets,
                   top_markets>>
    /\ UNCHANGED <<fetchVars, batchedVars, recordVars>>

(* lines 125, 156-157: the loop ends and the list is returned *)
Return ==
    /\ pc = "loop"
    /\ ~has_more
    /\ pc' = "returned"
    /\ ci' = 0
    /\ UNCHANGED <<store, batch_size, max_workers, top_n, offset, has_more, all_empty,
                   all_markets, futures, wave_no, requested, wave_results,
                   waves_nonempty, waves_empty, faults, filtered_markets, top_markets>>
    /\ UNCHANGED <<fetchVars, batchedVars, recordVars>>

-----------------------------------------------------------------------------
(* get_top_markets_by_volume (top_election_vol.py 211-253)                 *)

chunk_size == 2    \* 1000 in the source, scaled with the store

(* lines 223-231: one chunk through executor.map; list() re-raises the     *)
(* first exception of a worker.                                            *)
FilterChunk ==
    /\ pc = "returned"
    /\ ci < Len(all_markets)
    /\ LET chunk == SubSeq(all_markets, ci + 1, Min(ci + chunk_size, Len(all_markets)))
       IN  IF \E k \in 1..Len(chunk) : is_valid_market(chunk[k]) = "AttributeError"
           THEN pc' = "raised" /\ UNCHANGED filtered_markets
           ELSE pc' = pc /\ filtered_markets' = filtered_markets \o KeepValid(chunk)
    /\ ci' = ci + chunk_size
    /\ UNCHANGED <<store, batch_size, max_workers, top_n, offset, has_more, all_empty,
                   all_markets, futures, wave_no, requested, wave_results,
                   waves_nonempty, waves_empty, faults, top_markets>>
    /\ UNCHANGED <<fetchVars, batchedVars, recordVars>>

(* lines 247-253: sort, truncate, return *)
SortAndReturn ==
    /\ pc = "returned"
    /\ ci >= Len(all_markets)
    /\ IF SortRaises(filtered_markets)
       THEN pc' = "raised" /\ UNCHANGED <<filtered_markets, top_markets>>
       ELSE /\ filtered_markets' = SortByVolume(filtered_markets)
            /\ top_markets' = Truncate(SortByVolume(filtered_markets), top_n)
            /\ pc' = "done"
    /\ UNCHANGED <<store, batch_size, max_workers, top_n, offset, has_more, all_empty,
                   all_markets, futures, ci, wave_no, requested, wave_results,
                   waves_nonempty, waves_empty, faults>>
    /\ UNCHANGED <<fetchVars, batchedVars, recordVars>>

-----------------------------------------------------------------------------
(* fetch_markets_batched (query_elections.py 75-179)                       *)

batched_max_retries == 3
page_size == 20

(* Records the search endpoint may serve: two closed versions and an open *)
(* version of market 1, market 2, and records whose id is null or missing. *)
SearchRec(id, closed, version) ==
    Market(id, closed, Str(TxtName), Str(TxtWinElection), Null, Num(version), Absent)

SearchRecords ==
    {SearchRec(Num(1), Bool(TRUE), 1), SearchRec(Num(1), Bool(TRUE), 2),
     SearchRec(Num(1), Bool(FALSE), 3), SearchRec(Num(2), Bool(TRUE), 1),
     SearchRec(Null, Bool(TRUE), 1), SearchRec(Absent, Bool(TRUE), 2)}

(* What one request of fetch_markets_batched can yield: a failure (an      *)
(* undecodable body raises requests' JSONDecodeError, which is a           *)
(* RequestException from requests 2.27 on and a plain ValueError before:   *)
(* "bad_json" and "bad_json_valueerror"), {"markets": [...]}, a bare list, *)
(* an object without "markets", {"markets": null}, {"markets": 5}, a JSON  *)
(* string, or another JSON scalar.  The records of a "markets" list are    *)
(* drawn one by one as the loop of line 133 reaches them.                  *)
SearchResponseKinds ==
    FailureKinds \cup {"bad_json_valueerror", "wrapped", "list", "object", "wrapped_null",
                       "wrapped_num", "string", "scalar"}

(* line 150: what `except requests.exceptions.RequestException` catches *)
CaughtFailure(kind) == kind \in FailureKinds

(* what escapes the function: the ValueError of an undecodable body under  *)
(* older requests, and the TypeError of line 119 on a body that is neither *)
(* a container nor a string                                                *)
Escapes(kind) == kind \in {"bad_json_valueerror", "scalar"}

(* line 119: the body is an object whose "markets" is a list *)
HasMarketsList(kind) == kind = "wrapped"

(* a key taken from the wrong field *)
MarketIdWrongField(m) == m.volumeNum

(* lines 134, 168: market.get("id") *)
MarketId(m) == m.id

(* line 135: market.get("closed") == True; 1 == True in Python *)
ClosedIsTrue(m) == m.closed.t \in {"bool", "num"} /\ m.closed.n = 1

(* an admission test without the seen_ids check *)
AdmitSeenAgain(m, seen) == Truthy(MarketId(m)) /\ ClosedIsTrue(m)

(* an admission test without the `market_id and` guard *)
AdmitWithoutId(m, seen) == MarketId(m) \notin seen /\ ClosedIsTrue(m)

(* line 135: the test that admits a market *)
Admit(m, seen) == Truthy(MarketId(m)) /\ MarketId(m) \notin seen /\ ClosedIsTrue(m)

(* lines 134-137: one iteration of the loop over a page *)
ProcessMarket(m, tm, seen) ==
    IF Admit(m, seen)
    THEN [term_markets |-> Append(tm, m), seen_ids |-> seen \cup {MarketId(m)}]
    ELSE [term_markets |-> tm, seen_ids |-> seen]

(* line 168: {market.get("id"): market for market in all_markets if      *)
(* market.get("id")}.values(): a key keeps the place of its first          *)
(* occurrence and the value of its last one.                               *)
WithId(ms) == SelectSeq(ms, LAMBDA m : Truthy(MarketId(m)))
LastWithId(ms, id) ==
    ms[CHOOSE j \in 1..Len(ms) :
          MarketId(ms[j]) = id /\ \A k \in (j + 1)..Len(ms) : MarketId(ms[k]) # id]
RECURSIVE DictValues(_, _, _)
DictValues(ms, k, keys) ==
    IF k > Len(ms) THEN <<>>
    ELSE IF MarketId(ms[k]) \in keys THEN DictValues(ms, k + 1, keys)
         ELSE <<LastWithId(ms, MarketId(ms[k]))>>
              \o DictValues(ms, k + 1, keys \cup {MarketId(ms[k])})
UniqueMarkets(ms) == DictValues(WithId(ms), 1, {})

(* line 161: the test that leaves the pagination loop *)
LeaveLoop(mlen, tm, limit) == mlen = 0 \/ Len(tm) >= limit

(* history: the first closed occurrence of each identifier in arrival order *)
NoId(m) == m.id.t \in {"absent", "null"}
FirstsAfter(fs, m) ==
    IF ~NoId(m) /\ Truthy(m.id) /\ ClosedIsTrue(m) /\ \A k \in 1..Len(fs) : fs[k].id # m.id
    THEN Append(fs, m)
    ELSE fs

(* lines 87-98: the call begins; with no search term it returns at once *)
BStart ==
    /\ b_pc = "start"
    /\ IF n_terms = 0
       THEN /\ b_pc' = "done"
            /\ unique_markets_list' = UniqueMarkets(b_all_markets)
            /\ UNCHANGED term_idx
       ELSE /\ b_pc' = "request"
            /\ term_idx' = 1
            /\ UNCHANGED unique_markets_list
    /\ UNCHANGED <<n_terms, limit_per_term, term_markets, seen_ids, b_offset, markets_len,
                   retry, b_all_markets, n_requests, n_received, saw_no_id, firsts,
                   last_page>>
    /\ UNCHANGED <<fetchVars, sweepVars, recordVars>>

(* lines 160-165 and the loop heads of lines 92-100, reached when the      *)
(* retry loop is left with `markets` of length mlen, term_markets tm and   *)
(* offset off: go on with the same term, start the next term, or finish    *)
(* (lines 167-179).  An unbound `markets` raises UnboundLocalError at      *)
(* line 161.                                                               *)
AfterRetryLoop(mlen, tm, off) ==
    IF mlen = -1
    THEN /\ b_pc' = "raised"
         /\ term_markets' = tm
         /\ b_offset' = off
         /\ UNCHANGED <<term_idx, retry, b_all_markets, unique_markets_list>>
    ELSE IF ~LeaveLoop(mlen, tm, limit_per_term)
    THEN /\ b_pc' = "request"
         /\ retry' = 0
         /\ term_markets' = tm
         /\ b_offset' = off
         /\ UNCHANGED <<term_idx, b_all_markets, unique_markets_list>>
    ELSE /\ b_all_markets' = b_all_markets \o tm
         /\ retry' = 0
         /\ IF term_idx < n_terms
            THEN /\ term_idx' = term_idx + 1
                 /\ term_markets' = <<>>
                 /\ b_offset' = 0
                 /\ b_pc' = "request"
                 /\ UNCHANGED unique_markets_list
            ELSE /\ unique_markets_list' = UniqueMarkets(b_all_markets \o tm)
                 /\ term_markets' = tm
                 /\ b_offset' = off
                 /\ b_pc' = "done"
                 /\ UNCHANGED term_idx

(* history: how a request ended.  A failure is retried ("retrying") or,   *)
(* on the last attempt, gives the page up ("failed"); a bare array and a   *)
(* body without a "markets" list end the retry loop; "escaped" is an       *)
(* exception that leaves the function; "ok" is a "markets" list.           *)
PageOutcome(kind, r) ==
    IF Escapes(kind) THEN "escaped"
    ELSE IF CaughtFailure(kind)
         THEN (IF r < batched_max_retries - 1 THEN "retrying" ELSE "failed")
    ELSE IF kind = "list" THEN "bare_list"
    ELSE IF ~HasMarketsList(kind) THEN "no_list"
    ELSE "ok"

(* lines 109-128, 150-158: one request of the retry loop.  A failure is    *)
(* retried or ends the loop, a body without a "markets" list ends the loop *)
(* with `markets` as it was, a "markets" list is bound to `markets`.       *)
BAttempt ==
    /\ b_pc = "request"
    /\ n_requests < MaxRequests
    /\ n_requests' = n_requests + 1
    /\ \E kind \in SearchResponseKinds :
        /\ last_page' = PageOutcome(kind, retry)
        /\ IF Escapes(kind)
             THEN /\ b_pc' = "raised"
                  /\ UNCHANGED <<term_idx, term_markets, b_offset, markets_len,
                                 retry, b_all_markets, unique_markets_list>>
             ELSE IF CaughtFailure(kind)
             THEN /\ UNCHANGED markets_len
                  /\ IF retry < batched_max_retries - 1
                     THEN /\ retry' = retry + 1
                          /\ UNCHANGED <<term_idx, term_markets, b_offset, b_all_markets, b_pc,
                                         unique_markets_list>>
                     ELSE AfterRetryLoop(markets_len, term_markets, b_offset)
             ELSE IF ~HasMarketsList(kind)
             THEN /\ UNCHANGED markets_len
                  /\ AfterRetryLoop(markets_len, term_markets, b_offset)
             ELSE /\ markets_len' = 0
                  /\ b_pc' = "page"
                  /\ UNCHANGED <<term_idx, term_markets, b_offset, retry, b_all_markets,
                                 unique_markets_list>>
    /\ UNCHANGED <<n_terms, limit_per_term, seen_ids, n_received, saw_no_id, firsts>>
    /\ UNCHANGED <<fetchVars, sweepVars, recordVars>>

(* lines 133-137: the next market of the page *)
BMarket ==
    /\ b_pc = "page"
    /\ markets_len < MaxPageLen
    /\ \E market \in SearchRecords :
          LET done == ProcessMarket(market, term_markets, seen_ids)
          IN  /\ term_markets' = done.term_markets
              /\ seen_ids' = done.seen_ids
              /\ firsts' = FirstsAfter(firsts, market)
              /\ saw_no_id' = (saw_no_id \/ NoId(market))
    /\ markets_len' = markets_len + 1
    /\ n_received' = n_received + 1
    /\ UNCHANGED <<n_terms, limit_per_term, term_idx, b_offset, retry, b_all_markets, b_pc,
                   unique_markets_list, n_requests, last_page>>
    /\ UNCHANGED <<fetchVars, sweepVars, recordVars>>

(* lines 126-128 (an empty page) or 139-148 (the page is done), then       *)
(* line 161                                                                *)
BPageEnd ==
    /\ b_pc = "page"
    /\ AfterRetryLoop(markets_len, term_markets,
                      IF markets_len = 0 THEN b_offset ELSE b_offset + page_size)
    /\ UNCHANGED <<n_terms, limit_per_term, seen_ids, markets_len, n_requests, n_received,
                   saw_no_id, firsts, last_page>>
    /\ UNCHANGED <<fetchVars, sweepVars, recordVars>>

-----------------------------------------------------------------------------
(* One call of fetch_markets_batch, attempt by attempt *)

FetchAttempt ==
    /\ fcall.status = "running"
    /\ \E resp \in Responses(store, fcall.offset, batch_size) :
          /\ fcall' = AttemptStep(fcall, resp)
          /\ fresp' = Append(fresp, resp)
    /\ UNCHANGED <<sweepVars, batchedVars, recordVars>>

-----------------------------------------------------------------------------
(* is_election_related (query_elections.py 37-73)                          *)

(* lines 16-21 *)
Q_ELECTION_KEYWORDS ==
    {<<"p", "r", "e", "s", "i", "d", "e", "n", "t">>,
     <<"e", "l", "e", "c", "t", "i", "o", "n">>,
     <<"p", "r", "e", "s", "i", "d", "e", "n", "t", "i", "a", "l">>,
     <<"v", "o", "t", "e">>,
     <<"b", "a", "l", "l", "o", "t">>,
     <<"c", "o", "n", "g", "r", "e", "s", "s">>,
     <<"s", "e", "n", "a", "t", "e">>,
     <<"g", "o", "v", "e", "r", "n", "o", "r">>,
     <<"c", "a", "n", "d", "i", "d", "a", "t", "e">>,
     <<"p", "r", "i", "m", "a", "r", "y">>,
     <<"n", "o", "m", "i", "n", "e", "e">>,
     <<"m", "a", "y", "o", "r">>,
     <<"d", "e", "m", "o", "c", "r", "a", "t">>,
     <<"r", "e", "p", "u", "b", "l", "i", "c", "a", "n">>,
     <<"c", "o", "n", "s", "t", "i", "t", "u", "e", "n", "c", "y">>,
     <<"p", "a", "r", "l", "i", "a", "m", "e", "n", "t">>,
     <<"c", "h", "a", "n", "c", "e", "l", "l", "o", "r">>,
     <<"m", "i", "n", "i", "s", "t", "e", "r">>,
     <<"p", "a", "r", "t", "y">>,
     <<"c", "a", "m", "p", "a", "i", "g", "n">>,
     <<"p", "o", "l", "l">>}

TxtElection == <<"e", "l", "e", "c", "t", "i", "o", "n">>
TxtPolitical == <<"p", "o", "l", "i", "t", "i", "c", "a", "l">>
TxtPolitics == <<"p", "o", "l", "i", "t", "i", "c", "s">>
TxtElectionCap == <<"E", "l", "e", "c", "t", "i", "o", "n">>
TxtVote == <<"v", "o", "t", "e">>
TxtGeneral == <<"g", "e", "n", "e", "r", "a", "l">>

(* the events field: a JSON value that may be a list of event objects *)
EventList(items) == [t |-> "list", items |-> items]
NotAList(t) == [t |-> t, items |-> <<>>]
Event(title, description, electionType) ==
    [title |-> title, description |-> description, electionType |-> electionType]
QMarket(question, description, category, events) ==
    [question |-> question, description |-> description, category |-> category,
     events |-> events]

(* x.get(key, "").lower(): raises unless the value is a string or missing *)
GetLowerRaises(v) == v.t \notin {"absent", "str"}
GetLower(v) == IF v.t = "str" THEN Lower(v.s) ELSE <<>>

HasElectionKeyword(text) == \E k \in Q_ELECTION_KEYWORDS : Contains(text, Lower(k))

(* lines 51-53 *)
OwnTextSignal(m) ==
    \/ HasElectionKeyword(GetLower(m.question))
    \/ HasElectionKeyword(GetLower(m.description))
    \/ HasElectionKeyword(GetLower(m.category))

(* lines 56-57 *)
CategorySignal(m) ==
    \/ Contains(GetLower(m.category), TxtElection)
    \/ Contains(GetLower(m.category), TxtPolitical)
    \/ Contains(GetLower(m.category), TxtPolitics)

(* lines 63-65 *)
EventRaises(event) ==
    \/ GetLowerRaises(event.title)
    \/ GetLowerRaises(event.description)
    \/ GetLowerRaises(event.electionType)

(* lines 67-68 *)
EventSignal(event) ==
    \/ GetLower(event.electionType) # <<>>
    \/ Contains(GetLower(event.title), TxtElection)
    \/ HasElectionKeyword(GetLower(event.title))
    \/ HasElectionKeyword(GetLower(event.description))

(* lines 60-69: the loop over the events *)
RECURSIVE EventsLoop(_)
EventsLoop(items) ==
    IF items = <<>> THEN "False"
    ELSE IF EventRaises(Head(items)) THEN "AttributeError"
    ELSE IF EventSignal(Head(items)) THEN "True"
    ELSE EventsLoop(Tail(items))

(* "True", "False", or "AttributeError" when the call raises *)
is_election_related(m) ==
    IF GetLowerRaises(m.question) \/ GetLowerRaises(m.description)
         \/ GetLowerRaises(m.category)
    THEN "AttributeError"
    ELSE IF OwnTextSignal(m) THEN "True"
    ELSE IF CategorySignal(m) THEN "True"
    ELSE IF m.events.t = "list" /\ m.events.items # <<>> THEN EventsLoop(m.events.items)
    ELSE "False"

(* get_election_markets, lines 207-219: the value stored in volumeNum *)
CoerceVolume(m) ==
    LET coerce(x) == LET f == Float(x)
                     IN  IF f.exc # "none" /\ Caught(f.exc) THEN Returns(FloatOf(0)) ELSE f
    IN  IF m.volumeNum.t # "absent" THEN coerce(m.volumeNum)
        ELSE IF m.volume.t # "absent" THEN coerce(m.volume)
        ELSE Returns(FloatOf(0))

-----------------------------------------------------------------------------
(* is_valid_market and get_volume called on one record                     *)

TxtTab == <<"\t">>
TxtBlank == <<" ", "\t">>
TxtSeven == <<"7">>
TxtNan == <<"n", "a", "n">>

ClosedValues == {Absent, Null, Bool(FALSE), Bool(TRUE), Num(1)}
TitleValues == {Absent, Null, Num(7), Bool(TRUE), Str(<<>>), Str(TxtBlank),
                Str(TxtNameDigit), Str(TxtName)}
QuestionValues == {Absent, Null, Num(1), Str(TxtWinElection), Str(TxtWins),
                   Str(TxtElected), Str(TxtOther)}
DescriptionValues == {Absent, Null, Num(0), Num(1), Str(<<>>), Str(TxtWins),
                      Str(TxtElected), Str(TxtOther)}
VolumeValues == {Absent, Null, Num(0), Num(2), Bool(TRUE), BigInt, Str(TxtSeven),
                 Str(TxtOther), Str(<<>>), Str(TxtNan)}

ValidatorInputs ==
    {Market(Num(1), c, t, q, d, Num(1), Num(1)) :
        c \in ClosedValues, t \in TitleValues, q \in QuestionValues, d \in DescriptionValues}

RankerInputs ==
    {Market(Num(1), Bool(TRUE), Str(TxtName), Str(TxtWinElection), Null, vn, v) :
        vn \in VolumeValues, v \in VolumeValues}

NoMarket == Market(Absent, Absent, Absent, Absent, Absent, Absent, Absent)
NotCalled == [exc |-> "not called", key |-> FloatOf(0)]

EventValues ==
    {Event(t, d, e) : t \in {Absent, Null, Str(TxtElectionCap), Str(TxtOther)},
                      d \in {Absent, Str(TxtVote)},
                      e \in {Absent, Str(<<>>), Str(TxtGeneral)}}
EventsValues ==
    {NotAList("absent"), NotAList("null"), NotAList("str")}
      \cup {EventList(<<>>)}
      \cup {EventList(<<e>>) : e \in EventValues}
      \cup {EventList(<<e1, e2>>) : e1 \in EventValues, e2 \in EventValues}

RelatedInputs ==
    {QMarket(q, d, c, ev) :
        q \in {Absent, Null, Str(TxtElectionCap), Str(TxtOther)},
        d \in {Absent, Str(TxtOther)},
        c \in {Absent, Null, Str(TxtPolitics), Str(TxtOther)},
        ev \in EventsValues}

NoQMarket == QMarket(Absent, Absent, Absent, NotAList("absent"))

RecordIdle ==
    /\ a_market = NoMarket
    /\ is_valid = "not called"
    /\ volume_key = NotCalled
    /\ volumeNum_set = NotCalled
    /\ q_market = NoQMarket
    /\ is_related = "not called"

(* is_valid_market(a_market) *)
Validate ==
    /\ a_market # NoMarket
    /\ is_valid = "not called"
    /\ is_valid' = is_valid_market(a_market)
    /\ UNCHANGED <<a_market, volume_key, volumeNum_set, q_market, is_related>>
    /\ UNCHANGED <<fetchVars, sweepVars, batchedVars>>

(* get_volume(a_market) *)
Rank ==
    /\ a_market # NoMarket
    /\ volume_key = NotCalled
    /\ volume_key' = get_volume(a_market)
    /\ UNCHANGED <<a_market, is_valid, volumeNum_set, q_market, is_related>>
    /\ UNCHANGED <<fetchVars, sweepVars, batchedVars>>

(* the volumeNum coercion of get_election_markets on a_market *)
Coerce ==
    /\ a_market # NoMarket
    /\ volumeNum_set = NotCalled
    /\ volumeNum_set' = CoerceVolume(a_market)
    /\ UNCHANGED <<a_market, is_valid, volume_key, q_market, is_related>>
    /\ UNCHANGED <<fetchVars, sweepVars, batchedVars>>

(* is_election_related(q_market) *)
Relate ==
    /\ q_market # NoQMarket
    /\ is_related = "not called"
    /\ is_related' = is_election_related(q_market)
    /\ UNCHANGED <<a_market, is_valid, volume_key, volumeNum_set, q_market>>
    /\ UNCHANGED <<fetchVars, sweepVars, batchedVars>>

-----------------------------------------------------------------------------
(* Initial states *)

FetchIdle == fcall = [NewCall(0) EXCEPT !.status = "idle"] /\ fresp = <<>>

SweepConfig ==
    /\ store \in {Catalog(n) : n \in 0..MaxN}
    /\ batch_size \in 1..MaxBatch
    /\ max_workers \in 1..MaxWorkers
    /\ top_n \in 0..MaxTopN

SweepStart ==
    /\ offset = 0
    /\ has_more = TRUE
    /\ all_empty = TRUE
    /\ all_markets = <<>>
    /\ futures = NoFutures
    /\ ci = 1
    /\ wave_no = 0
    /\ requested = <<>>
    /\ wave_results = <<>>
    /\ waves_nonempty = 0
    /\ waves_empty = 0
    /\ faults = 0
    /\ filtered_markets = <<>>
    /\ top_markets = <<>>

BatchedStart ==
    /\ term_idx = 0
    /\ term_markets = <<>>
    /\ seen_ids = {}
    /\ b_offset = 0
    /\ markets_len = -1
    /\ retry = 0
    /\ b_all_markets = <<>>
    /\ unique_markets_list = <<>>
    /\ n_requests = 0
    /\ n_received = 0
    /\ saw_no_id = FALSE
    /\ firsts = <<>>
    /\ last_page = "none"

BatchedIdle ==
    /\ n_terms = 0
    /\ limit_per_term = 1
    /\ BatchedStart
    /\ b_pc = "idle"

(* get_top_markets_by_volume is called *)
Init ==
    /\ SweepConfig
    /\ SweepStart
    /\ pc = "loop"
    /\ FetchIdle
    /\ BatchedIdle
    /\ RecordIdle

Next ==
    \/ Submit
    \/ \E i \in 1..MaxWorkers + 1 : RunFetch(i)
    \/ Collect
    \/ Advance
    \/ Return
    \/ FilterChunk
    \/ SortAndReturn

Spec == Init /\ [][Next]_vars

(* fetch_markets_batch(offset, batch_size) is called on its own *)
InitFetch ==
    /\ SweepConfig
    /\ SweepStart
    /\ pc = "idle"
    /\ \E o \in 0..MaxN : fcall = NewCall(o)
    /\ fresp = <<>>
    /\ BatchedIdle
    /\ RecordIdle

NextFetch == FetchAttempt

SpecFetch == InitFetch /\ [][NextFetch]_vars

SweepIdle ==
    /\ store = <<>>
    /\ batch_size = 1
    /\ max_workers = 1
    /\ top_n = 0
    /\ SweepStart
    /\ pc = "idle"

(* fetch_markets_batched(search_terms, limit_per_term) is called *)
InitBatched ==
    /\ n_terms \in 0..MaxTerms
    /\ limit_per_term \in 1..MaxLimit
    /\ BatchedStart
    /\ b_pc = "start"
    /\ SweepIdle
    /\ FetchIdle
    /\ RecordIdle

NextBatched == BStart \/ BAttempt \/ BMarket \/ BPageEnd

SpecBatched == InitBatched /\ [][NextBatched]_vars

(* Steps 2-4 of get_top_markets_by_volume on a list that fetch_all_markets *)
(* returned.  The records differ in identifier, validity and volume.       *)
RankRec(id, title, question, volumeNum, volume) ==
    Market(Num(id), Bool(TRUE), title, question, Null, volumeNum, volume)

RankRecords ==
    {RankRec(1, Str(TxtName), Str(TxtWinElection), Num(1), Num(9)),
     RankRec(2, Str(TxtName), Str(TxtWinElection), Null, Num(1)),
     RankRec(3, Str(TxtName), Str(TxtWinElection), Absent, Str(<<"2">>)),
     RankRec(4, Str(TxtName), Str(TxtWinElection), Str(TxtOther), Num(5)),
     RankRec(5, Str(TxtNameDigit), Str(TxtWinElection), Num(3), Num(3)),
     RankRec(6, Str(TxtName), Str(TxtWinElection), Null, Str(TxtNan)),
     RankRec(7, Str(TxtName), Null, Num(1), Num(1)),
     RankRec(8, Str(TxtName), Str(TxtWinElection), BigInt, Num(1))}

RECURSIVE Lists(_, _)
Lists(S, n) ==
    IF n = 0 THEN {<<>>}
    ELSE Lists(S, n - 1) \cup {Append(l, x) : l \in {l2 \in Lists(S, n - 1) : Len(l2) = n - 1}, x \in S}

InitRank ==
    /\ store = <<>>
    /\ batch_size = 1
    /\ max_workers = 1
    /\ top_n \in 0..MaxTopN
    /\ offset = 0
    /\ has_more = FALSE
    /\ all_empty = TRUE
    /\ all_markets \in Lists(RankRecords, MaxHarvest)
    /\ futures = NoFutures
    /\ ci = 0
    /\ wave_no = 0
    /\ requested = <<>>
    /\ wave_results = <<>>
    /\ waves_nonempty = 0
    /\ waves_empty = 0
    /\ faults = 0
    /\ filtered_markets = <<>>
    /\ top_markets = <<>>
    /\ pc = "returned"
    /\ FetchIdle
    /\ BatchedIdle
    /\ RecordIdle

NextRank == FilterChunk \/ SortAndReturn

SpecRank == InitRank /\ [][NextRank]_vars

(* is_valid_market and get_volume are called on a record *)
InitRecord ==
    /\ \/ a_market \in ValidatorInputs \cup RankerInputs /\ q_market = NoQMarket
       \/ a_market = NoMarket /\ q_market \in RelatedInputs \ {NoQMarket}
    /\ is_valid = "not called"
    /\ volume_key = NotCalled
    /\ volumeNum_set = NotCalled
    /\ is_related = "not called"
    /\ SweepIdle
    /\ FetchIdle
    /\ BatchedIdle

NextRecord == Validate \/ Rank \/ Coerce \/ Relate

SpecRecord == InitRecord /\ [][NextRecord]_vars

-----------------------------------------------------------------------------
(* Properties of fetch_all_markets                                         *)

AllFailed(resps) == \A k \in 1..Len(resps) : IsFailure(resps[k])
Ceil(a, b) == (a + b - 1) \div b
SweepOver == pc \in {"returned", "raised", "done"}
WaveDecided == pc = "loop" /\ wave_no > 0
ZeroRecords(r) == r.recs = <<>>

(* C1: the sweep stops after a wave if and only if every fetch of that     *)
(* wave returned zero records; a wave in which some fetch returned records *)
(* is followed by another wave.                                            *)
C1_StopsIffWaveEmpty ==
    WaveDecided =>
        /\ Len(wave_results) = max_workers
        /\ (~has_more) <=> (\A k \in 1..Len(wave_results) : ZeroRecords(wave_results[k]))

(* C2: with a stable store of N records and no failures the sweep makes    *)
(* ceil(N / (batch_size * max_workers)) waves in which some fetch returns  *)
(* records, then exactly one wave in which every fetch returns empty, and  *)
(* then stops.                                                             *)
C2_WaveCount ==
    faults = 0 =>
        /\ waves_empty <= 1
        /\ waves_nonempty <= Ceil(Len(store), batch_size * max_workers)
        /\ waves_empty = 1 =>
              /\ waves_nonempty = Ceil(Len(store), batch_size * max_workers)
              /\ ~has_more
        /\ (WaveDecided /\ waves_empty = 0) => has_more
        /\ SweepOver => (waves_empty = 1 /\ wave_no = waves_nonempty + 1)

C2_Witness ==
    /\ pc = "returned"
    /\ faults = 0
    /\ Len(store) = MaxN
    /\ batch_size * max_workers = 2
    /\ waves_nonempty = 2

(* C3: the cursor starts at 0 and only grows; the k-th wave requests the   *)
(* offsets cursor + i * batch_size, i = 0 .. max_workers - 1; the cursor   *)
(* moves by max_workers * batch_size once per wave, after every result of  *)
(* the wave was collected; so the requested offsets are the multiples of   *)
(* batch_size in order, none twice, none skipped.                          *)
C3_CursorInv ==
    /\ Len(requested) = wave_no * max_workers
    /\ \A k \in 1..Len(requested) : requested[k] = (k - 1) * batch_size
    /\ pc = "collect" => offset = (wave_no - 1) * max_workers * batch_size
    /\ pc = "collect" =>
          \A i \in 1..max_workers : futures[i].offset = offset + (i - 1) * batch_size
    /\ pc # "collect" => offset = wave_no * max_workers * batch_size

C3_Cursor ==
    /\ []C3_CursorInv
    /\ [][offset' >= offset]_vars
    /\ [][offset' # offset =>
             (pc = "collect" /\ ci > max_workers
              /\ \A i \in 1..max_workers : futures[i].state = "collected")]_vars

C3_Witness ==
    /\ pc = "collect"
    /\ wave_no = 3
    /\ max_workers = 2
    /\ batch_size = 2
    /\ ci = 2

(* C7: the result of get_top_markets_by_volume holds no two records with   *)
(* the same identifier, whatever pages the endpoint serves.                *)
C7_NoDuplicateIds ==
    pc = "done" =>
        \A i, j \in 1..Len(top_markets) :
            top_markets[i].id = top_markets[j].id => i = j

-----------------------------------------------------------------------------
(* Properties of fetch_markets_batch                                       *)

LastResp == fresp[Len(fresp)]

(* C4: a call whose max_retries attempts all fail returns an empty list    *)
(* and raises nothing.                                                     *)
C4_ExhaustedReturnsEmpty ==
    (Len(fresp) = max_retries /\ AllFailed(fresp)) =>
        (fcall.status = "returned" /\ fcall.result = ListResult(<<>>))

C4_Witness ==
    /\ Len(fresp) = max_retries
    /\ fresp[1].kind = "timeout"
    /\ fresp[2].kind = "http_error"
    /\ fresp[3].kind = "bad_json"
    /\ fcall.status = "returned"

(* C5: the call sleeps retry_delay * 2^attempt after failed attempt number *)
(* `attempt` when another attempt follows, issues no request after an      *)
(* attempt has succeeded, and issues at most max_retries requests.         *)
C5_Backoff ==
    /\ \A k \in 1..Len(fcall.slept) :
          /\ IsFailure(fresp[k])
          /\ fcall.slept[k] = retry_delay * (2 ^ (k - 1))
    /\ \A k \in 1..Len(fresp) :
          (IsFailure(fresp[k]) /\ k < max_retries) => Len(fcall.slept) >= k
    /\ \A k \in 1..(Len(fresp) - 1) : IsFailure(fresp[k])
    /\ fcall.requests = Len(fresp)
    /\ fcall.requests <= max_retries
    /\ fcall.status = "returned" <=>
          (Len(fresp) > 0 /\ (~IsFailure(LastResp) \/ Len(fresp) = max_retries))

C5_Witness ==
    /\ fcall.status = "returned"
    /\ fcall.slept = <<5, 10>>
    /\ ~IsFailure(LastResp)

(* C6: a bare list and an object whose "markets" field holds that list     *)
(* give the same records; a body of any other shape gives zero records,    *)
(* without raising and without another attempt.                            *)
C6_BodyShapes ==
    (Len(fresp) > 0 /\ ~IsFailure(LastResp)) =>
        /\ fcall.status = "returned"
        /\ fcall.requests = Len(fresp)
        /\ fcall.result =
              (IF LastResp.kind \in {"list", "wrapped"}
               THEN ListResult(LastResp.recs) ELSE ListResult(<<>>))

-----------------------------------------------------------------------------
(* Properties of fetch_markets_batched                                     *)

InSeq(ms) == {ms[k] : k \in 1..Len(ms)}

(* C8: whatever pages were received, the returned list holds no two        *)
(* records with the same identifier, and is no longer than the number of   *)
(* records received.                                                       *)
C8_UniqueAndBounded ==
    b_pc = "done" =>
        /\ \A i, j \in 1..Len(unique_markets_list) :
              unique_markets_list[i].id = unique_markets_list[j].id => i = j
        /\ Len(unique_markets_list) <= n_received

C8_Witness ==
    /\ b_pc = "done"
    /\ term_idx = 2
    /\ n_received = 4
    /\ ~saw_no_id
    /\ Len(unique_markets_list) = 2

(* C9: of the records with one identifier the returned list keeps the      *)
(* first admitted one in arrival order, and identifiers appear in the      *)
(* order in which they were first admitted.                                *)
C9_FirstWins ==
    /\ b_pc = "done" => unique_markets_list = firsts
    /\ b_pc \in {"request", "page"} => b_all_markets \o term_markets = firsts

C9_Witness ==
    /\ b_pc = "done"
    /\ n_received = 4
    /\ ~saw_no_id
    /\ unique_markets_list =
          <<SearchRec(Num(2), Bool(TRUE), 1), SearchRec(Num(1), Bool(TRUE), 2)>>

(* C10: a record whose identifier is missing or null is never returned and *)
(* is never part of term_markets, whose length is the running total that   *)
(* is compared with limit_per_term.                                        *)
C10_NoIdDropped ==
    \A m \in InSeq(term_markets) \cup InSeq(b_all_markets) \cup InSeq(unique_markets_list) :
        ~NoId(m)

C10_Witness ==
    /\ b_pc = "done"
    /\ saw_no_id
    /\ n_received = 3
    /\ Len(unique_markets_list) = 1
    /\ limit_per_term = 2

-----------------------------------------------------------------------------
(* Properties of is_valid_market                                           *)

StrOrEmpty(v) == IF v.t = "str" THEN Lower(v.s) ELSE <<>>
CombinedText(m) == StrOrEmpty(m.question) \o <<" ">> \o StrOrEmpty(m.description)
HitsWin(m) == \E w \in WIN_KEYWORDS : Contains(CombinedText(m), w)
HitsElection(m) == \E w \in ELECTION_KEYWORDS : Contains(CombinedText(m), w)

(* C11: is_valid_market accepts a record only if its lowercased question   *)
(* and description together contain a term of WIN_KEYWORDS and a term of   *)
(* ELECTION_KEYWORDS; a hit in one set alone is not enough, whatever the   *)
(* other fields are.                                                       *)
C11_BothKeywordSets ==
    is_valid = "True" => HitsWin(a_market) /\ HitsElection(a_market)

C11_Witness ==
    /\ is_valid = "False"
    /\ a_market.closed = Bool(TRUE)
    /\ a_market.groupItemTitle = Str(TxtName)
    /\ HitsWin(a_market)
    /\ ~HitsElection(a_market)

RECURSIVE Strip(_)
Strip(chars) ==
    IF chars = <<>> THEN <<>>
    ELSE IF Head(chars) \in Whitespace THEN Strip(Tail(chars))
    ELSE IF chars[Len(chars)] \in Whitespace THEN Strip(SubSeq(chars, 1, Len(chars) - 1))
    ELSE chars

TitleUnusable(title) ==
    \/ title.t \in {"absent", "null"}
    \/ title.t # "str"
    \/ Strip(title.s) = <<>>
    \/ \E k \in 1..Len(title.s) : title.s[k] \in Digits

(* C12: is_valid_market rejects every record whose groupItemTitle is       *)
(* absent, null, not a string, empty after trimming whitespace, or holds a *)
(* digit, whatever its question and description are.                       *)
C12_TitleRequired ==
    (is_valid # "not called" /\ TitleUnusable(a_market.groupItemTitle)) => is_valid = "False"

C12_Witness ==
    /\ is_valid = "False"
    /\ a_market.closed = Bool(TRUE)
    /\ a_market.groupItemTitle = Str(TxtNameDigit)
    /\ HitsWin(a_market)
    /\ HitsElection(a_market)

-----------------------------------------------------------------------------
(* Properties of is_election_related                                       *)

SomeEventSignal(m) ==
    \E k \in 1..Len(m.events.items) : EventSignal(m.events.items[k])

(* C13: a record with a non-empty events list is accepted only if some     *)
(* event's title, description or electionType satisfies the keyword check  *)
(* and the record's own text satisfies it too: the check on the events is  *)
(* a required conjunct, not another way to be accepted.                    *)
C13_NestedSignalRequired ==
    (is_related = "True" /\ q_market.events.t = "list" /\ q_market.events.items # <<>>)
        => ((OwnTextSignal(q_market) \/ CategorySignal(q_market)) /\ SomeEventSignal(q_market))

-----------------------------------------------------------------------------
(* Properties of get_volume                                                *)

NumericString(v) == v.t = "str" /\ (IsDecimal(v.s) \/ IsNanLiteral(v.s))
Unrankable(v) == v.t \in {"absent", "null"} \/ (v.t = "str" /\ ~NumericString(v))

(* C14: get_volume never raises on a record whose volumeNum and volume are *)
(* each absent, null or a non-numeric string: in every combination of      *)
(* those cases it returns 0.                                               *)
C14_DefaultsToZero ==
    (volume_key # NotCalled /\ Unrankable(a_market.volumeNum) /\ Unrankable(a_market.volume))
        => volume_key = Returns(FloatOf(0))

C14_Witness ==
    /\ volume_key = Returns(FloatOf(0))
    /\ a_market.volumeNum = Null
    /\ a_market.volume = Str(TxtOther)

Coercible(v) == v.t = "num" \/ (v.t = "str" /\ IsDecimal(v.s))
NumberOf(v) == IF v.t = "num" THEN v.n ELSE DecimalValue(v.s)
FallbackChainKey(m) ==
    IF Coercible(m.volumeNum) THEN NumberOf(m.volumeNum)
    ELSE IF Coercible(m.volume) THEN NumberOf(m.volume)
    ELSE 0

(* C15: the ranking key is volumeNum when that is present and coercible to *)
(* a number; when volumeNum is absent, null or a non-numeric string the    *)
(* key is volume if that is coercible; only when neither gives a number is *)
(* the key 0.                                                              *)
C15_FallbackChain ==
    (/\ volume_key # NotCalled
     /\ Coercible(a_market.volumeNum) \/ Unrankable(a_market.volumeNum)
     /\ Coercible(a_market.volume) \/ Unrankable(a_market.volume))
        => volume_key = Returns(FloatOf(FallbackChainKey(a_market)))

-----------------------------------------------------------------------------
(* Properties of get_top_markets_by_volume                                 *)

Key(m) == get_volume(m).key
SameKey(m1, m2) == ~Key(m1).nan /\ ~Key(m2).nan /\ Key(m1).v = Key(m2).v
Valid(m) == is_valid_market(m) = "True"

RECURSIVE WithKeyOf(_, _)
WithKeyOf(ms, m) ==
    IF ms = <<>> THEN <<>>
    ELSE (IF SameKey(Head(ms), m) THEN <<Head(ms)>> ELSE <<>>) \o WithKeyOf(Tail(ms), m)

RECURSIVE ValidOnes(_)
ValidOnes(ms) ==
    IF ms = <<>> THEN <<>>
    ELSE (IF Valid(Head(ms)) THEN <<Head(ms)>> ELSE <<>>) \o ValidOnes(Tail(ms))

IsPrefix(a, b) == Len(a) <= Len(b) /\ SubSeq(b, 1, Len(a)) = a

(* C16: the result is ordered by non-increasing ranking key for all inputs *)
(* (also when a key came out as 0 by coercion), and records with equal     *)
(* keys keep the relative order in which the sweep discovered them.        *)
C16_SortedStable ==
    pc = "done" =>
        /\ \A i, j \in 1..Len(top_markets) :
              i < j => ~FloatLt(Key(top_markets[i]), Key(top_markets[j]))
        /\ \A i \in 1..Len(top_markets) :
              IsPrefix(WithKeyOf(top_markets, top_markets[i]),
                       WithKeyOf(ValidOnes(all_markets), top_markets[i]))

NumValid(ms) == Cardinality({k \in 1..Len(ms) : Valid(ms[k])})

(* C17: the length of the result is min(top_n, number of harvested records *)
(* that pass is_valid_market): never more than top_n, and all valid        *)
(* records when there are fewer than top_n.                                *)
C17_ResultLength ==
    pc = "done" => Len(top_markets) = Min(top_n, NumValid(all_markets))

C17_Witness ==
    /\ pc = "done"
    /\ top_n = 2
    /\ Len(all_markets) = 3
    /\ NumValid(all_markets) = 3
    /\ Len(top_markets) = 2

(* C18: every record of the result is a harvested record for which         *)
(* is_valid_market is true, and no valid harvested record with a strictly  *)
(* larger ranking key than some returned record is left out.               *)
C18_TopOfValid ==
    pc = "done" =>
        /\ \A r \in InSeq(top_markets) : r \in InSeq(all_markets) /\ Valid(r)
        /\ \A m \in InSeq(all_markets) \ InSeq(top_markets) :
              Valid(m) => \A r \in InSeq(top_markets) : ~FloatLt(Key(r), Key(m))

(* C20: for every catalog of records and every pattern of failures         *)
(* get_top_markets_by_volume completes and returns a list: no exception    *)
(* escapes from the fetch, validation or ranking steps.                    *)
C20_NoException == pc # "raised"

(* C19: two runs against an unchanged backing store give the same result   *)
(* sequence, whatever the order in which the worker threads of a wave      *)
(* finish their fetches and however the validation is interleaved: when    *)
(* every fetch is answered with the store's page, the result is the one    *)
(* sequence that the store, batch_size, max_workers and top_n determine.   *)
C19_SameResultEveryOrder ==
    (pc = "done" /\ faults = 0) =>
        top_markets = Truncate(SortByVolume(ValidOnes(store)), top_n)

C19_Witness ==
    /\ pc = "done"
    /\ faults = 0
    /\ max_workers = 2
    /\ batch_size = 1
    /\ Len(store) = 3
    /\ Len(top_markets) = 2
    /\ SameKey(top_markets[1], top_markets[2])

-----------------------------------------------------------------------------
(* Properties of the serial page fetcher fetch_markets_batched             *)

BadPage(outcome) == outcome \in {"failed", "bare_list", "no_list"}

(* C21: a page whose max_retries attempts all fail, or whose response has  *)
(* no `markets` list, counts as zero records: the pagination loop of the   *)
(* current search term ends there, no exception is raised and the function *)
(* goes on to the next search term (or returns after the last one),        *)
(* whether the bad page is the first page of a term or a later one.        *)
C21_BadPageEndsTerm ==
    [][(n_requests' = n_requests + 1 /\ BadPage(last_page'))
          => (b_pc' # "raised" /\ (b_pc' = "done" \/ term_idx' = term_idx + 1))]_vars

(* C22: fetch_markets_batched processes the records of a page whether the  *)
(* endpoint answers with a bare array or with an object whose `markets`    *)
(* field holds that array: after a bare array the loop over the records of *)
(* the page is entered, as it is after a wrapped one.                      *)
C22_BothShapes ==
    [][(n_requests' = n_requests + 1 /\ last_page' = "bare_list") => b_pc' = "page"]_vars

(* C23: for each search term at most limit_per_term markets are collected: *)
(* after any sequence of pages the number of records that one term         *)
(* contributes to the combined list never exceeds limit_per_term.          *)
C23_LimitPerTerm == Len(term_markets) <= limit_per_term

-----------------------------------------------------------------------------
(* Properties of the waves of fetch_all_markets                            *)

(* C24 as stated: a barrier joins all workers of a wave before the wave    *)
(* result is merged, so no record is appended to all_markets while a fetch *)
(* of the wave is still running.                                           *)
C24_Barrier ==
    [][all_markets' # all_markets
          => \A i \in DOMAIN futures : futures[i].state # "running"]_vars

(* C24, amended: the coordinating thread merges the results of a wave in   *)
(* submission order; the result of a fetch is appended only after that     *)
(* fetch has finished and the earlier futures of the wave have been taken, *)
(* while later fetches of the wave may still be running; the cursor        *)
(* advances only after every future of the wave has been taken.            *)
C24_JoinPerFuture ==
    /\ [][all_markets' # all_markets
            => /\ pc = "collect"
               /\ ci \in DOMAIN futures
               /\ futures[ci].state = "done"
               /\ \A j \in 1..(ci - 1) : futures[j].state = "collected"
               /\ all_markets' = all_markets \o futures[ci].result.recs]_vars
    /\ [][offset' # offset
            => \A i \in DOMAIN futures : futures[i].state = "collected"]_vars

C24_Witness ==
    /\ pc = "collect"
    /\ wave_no = 1
    /\ max_workers = 2
    /\ ci = 2
    /\ all_markets # <<>>
    /\ futures[2].state = "running"

LastWaveExhausted ==
    wave_no > 0 /\ \A i \in DOMAIN futures : futures[i].exhausted

(* C25: a persistently failing page looks like the end of the catalog: if  *)
(* every fetch of a wave returned empty because its retries were           *)
(* exhausted, the sweep ends and returns normally although the store still *)
(* holds records at or beyond the cursor, and the returned list is the     *)
(* list a sweep without failures returns for a store that ends there.      *)
C25_FailedWaveEndsSweep ==
    /\ (pc = "loop" /\ LastWaveExhausted) => ~has_more
    /\ (pc = "returned" /\ LastWaveExhausted /\ faults = max_workers)
          => all_markets = Catalog(Len(all_markets))

C25_Witness ==
    /\ pc = "returned"
    /\ LastWaveExhausted
    /\ wave_no = 2
    /\ all_markets # <<>>
    /\ Len(all_markets) < Len(store)

(* C26: with a stable store and no transport failures the list returned by *)
(* fetch_all_markets holds every record of the store exactly once, in      *)
(* ascending offset order, for every page size, worker count and order of  *)
(* worker completion.                                                      *)
C26_EveryRecordOnce ==
    (pc = "returned" /\ faults = 0) => all_markets = store

C26_Witness ==
    /\ pc = "returned"
    /\ faults = 0
    /\ batch_size = 1
    /\ max_workers = 2
    /\ Len(store) = 3
    /\ Len(all_markets) = 3

-----------------------------------------------------------------------------
(* The two ranking-key coercions                                           *)

PlainField(v) == v.t \in {"absent", "null", "num", "str"}

(* C27: for every record whose volumeNum and volume are each absent, null, *)
(* numeric or a non-numeric string, the key that get_volume computes       *)
(* equals the volumeNum value that get_election_markets writes into the    *)
(* record and sorts by.                                                    *)
C27_CoercionsAgree ==
    (/\ volume_key # NotCalled
     /\ volumeNum_set # NotCalled
     /\ PlainField(a_market.volumeNum)
     /\ PlainField(a_market.volume))
        => volume_key = volumeNum_set

=============================================================================
